---- MODULE Spec2Model ----
(***************************************************************************)
(* A model of the smac_planner core: the Node2D search node with its       *)
(* static neighbourhood table (node_2d.hpp) and the smoother cost function *)
(* UnconstrainedSmootherCostFunction (smoother_cost_function.hpp).         *)
(*                                                                         *)
(* Each subsystem has its own specification over the same variables:       *)
(*   SpecNode      the operations of one Node2D object                     *)
(*   SpecNeighbors initNeighborhoods and getNeighbors of one search        *)
(*   SpecEpisodes  two searches running in parallel threads                *)
(*   SpecAStar     the A* search over the node table                       *)
(*   SpecGradient  getCostmapGradient on a costmap                         *)
(*   SpecSmoother  UnconstrainedSmootherCostFunction::Evaluate             *)
(***************************************************************************)
EXTENDS Integers, Sequences, FiniteSets, TLC

VARIABLES
  node,   \* the fields of one Node2D object
  ret,    \* the last Node2D operation applied and what it returned
  neighbors_grid_offsets,  \* the static Node2D::_neighbors_grid_offsets
  call,   \* SpecNeighbors: the last initNeighborhoods / getNeighbors call
  ep,     \* SpecEpisodes: the position of each of the two searches
  search, \* SpecAStar: the inputs, node table and open set of one search
  grad,   \* SpecGradient: the last getCostmapGradient call
  smoother \* SpecSmoother: one cost function object and its Evaluate call

nodeVars == <<node, ret>>
neighborVars == <<neighbors_grid_offsets, call, ep>>
vars == <<node, ret, neighbors_grid_offsets, call, ep, search, grad, smoother>>

(***************************************************************************)
(* Cost codes (smac_planner/constants.hpp)                                 *)
(***************************************************************************)
FREE == 0
MAX_NON_OBSTACLE == 252
INSCRIBED == 253
OCCUPIED == 254
UNKNOWN == 255

\* every value of an unsigned char cell cost
CostValues == 0..255

(***************************************************************************)
(* Bounds                                                                  *)
(***************************************************************************)
\* largest node index handed to the Node2D constructor / reset
MaxIndex == 1

(***************************************************************************)
(* Node2D                                                                  *)
(***************************************************************************)
\* the null parent pointer
nullptr == -1

\* std::numeric_limits<float>::max(), kept as a value above every finite cost
FloatMax == 2147483647

\* Node2D::Node2D(cost_in, index)
Node2D(cost_in, i) ==
  [ parent           |-> nullptr,
    cell_cost        |-> cost_in,
    accumulated_cost |-> FloatMax,
    index            |-> i,
    was_visited      |-> FALSE,
    is_queued        |-> FALSE ]

\* Node2D::reset(cost, index) with line 94 (parent = nullptr) left out
reset_keepParent(n, cost, i) ==
  [ parent           |-> n.parent,
    cell_cost        |-> cost,
    accumulated_cost |-> FloatMax,
    index            |-> i,
    was_visited      |-> FALSE,
    is_queued        |-> FALSE ]

\* Node2D::reset(cost, index)
reset(n, cost, i) ==
  [ parent           |-> nullptr,
    cell_cost        |-> cost,
    accumulated_cost |-> FloatMax,
    index            |-> i,
    was_visited      |-> FALSE,
    is_queued        |-> FALSE ]

\* Node2D::setAccumulatedCost(cost_in)
setAccumulatedCost(n, cost_in) == [n EXCEPT !.accumulated_cost = cost_in]

\* Node2D::visited()
visited(n) == [n EXCEPT !.was_visited = TRUE, !.is_queued = FALSE]

\* Node2D::queued()
queued(n) == [n EXCEPT !.is_queued = TRUE]

\* isNodeValid with the INSCRIBED test left out
isNodeValid_noInscribed(n, traverse_unknown) ==
  [ value |-> IF n.cell_cost = OCCUPIED THEN FALSE
              ELSE IF n.cell_cost = UNKNOWN /\ ~traverse_unknown THEN FALSE
              ELSE TRUE,
    node  |-> n ]

\* Node2D::isNodeValid(traverse_unknown): the returned value and the node
\* as the call leaves it
isNodeValid(n, traverse_unknown) ==
  [ value |-> IF n.cell_cost = OCCUPIED \/ n.cell_cost = INSCRIBED THEN FALSE
              ELSE IF n.cell_cost = UNKNOWN /\ ~traverse_unknown THEN FALSE
              ELSE TRUE,
    node  |-> n ]

\* what a Node2D operation of return type void leaves as the returned value
Void == [op |-> "none", traverse_unknown |-> FALSE, value |-> FALSE]

IdleNode ==
  /\ node = Node2D(FREE, 0)
  /\ ret = Void

(***************************************************************************)
(* Neighbourhood table (Node2D::initNeighborhoods, Node2D::getNeighbors)   *)
(***************************************************************************)
\* rows of the grids searched
GridHeight == 3

\* row widths of the grids searched
Widths == {3, 4}

\* cells a validity checker may reject in one getNeighbors call
MaxInvalid == 1

\* enum class Neighborhood
Neighborhoods == {"UNKNOWN", "VON_NEUMANN", "MOORE"}

\* the offset table initNeighborhoods builds for a width and a kind
\* (the two vector literals of the switch)
OffsetTable(x_size, neighborhood) ==
  IF neighborhood = "VON_NEUMANN"
  THEN <<-1, 1, -x_size, x_size>>
  ELSE <<-1, 1, -x_size, x_size, -x_size - 1, -x_size + 1, x_size - 1, x_size + 1>>

\* Node2D::initNeighborhoods(x_size_uint, neighborhood): whether it threw
\* and the static table it leaves
initNeighborhoods(old, x_size, neighborhood) ==
  CASE neighborhood = "UNKNOWN" -> [threw |-> TRUE, offsets |-> old]
    [] neighborhood = "VON_NEUMANN" ->
         [threw |-> FALSE, offsets |-> OffsetTable(x_size, "VON_NEUMANN")]
    [] neighborhood = "MOORE" ->
         [threw |-> FALSE, offsets |-> OffsetTable(x_size, "MOORE")]
    [] OTHER -> [threw |-> TRUE, offsets |-> old]

\* one pass of the loop body of getNeighbors: the index computed from the
\* node's index and one offset, and whether the neighbour is pushed
NeighborIndex(node_i, offset) == node_i + offset

NeighborPushed(index, valid) == index > 0 /\ index \in valid

\* Node2D::getNeighbors(node, validity_checker, neighbors): the indices of
\* the neighbours appended, in order.  The validity checker accepts exactly
\* the cells of the set valid.
getNeighbors(node_i, offsets, valid) ==
  LET index == [i \in 1..Len(offsets) |-> NeighborIndex(node_i, offsets[i])]
  IN  SelectSeq(index, LAMBDA j : NeighborPushed(j, valid))

\* the cells of a grid of the given width, as flat indices
Cells(width) == 0..(width * GridHeight - 1)

\* the sets of cells a validity checker accepts
ValidSets(width) ==
  {Cells(width) \ bad : bad \in {b \in SUBSET Cells(width) : Cardinality(b) <= MaxInvalid}}

NoCall == [op |-> "none", width |-> 0, neighborhood |-> "UNKNOWN", threw |-> FALSE,
           node_i |-> 0, valid |-> {}, neighbors |-> <<>>]

IdleEpisodes == ep = <<>>

IdleSearch == search = [pc |-> "idle"]

IdleGradient == grad = [called |-> FALSE]

IdleSmoother == smoother = [pc |-> "idle"]

IdleNeighbors ==
  /\ neighbors_grid_offsets = <<>>
  /\ call = NoCall
  /\ IdleEpisodes
  /\ IdleSearch
  /\ IdleGradient
  /\ IdleSmoother

(***************************************************************************)
(* SpecNeighbors: one search initialises the table and asks for neighbours *)
(***************************************************************************)
InitNeighbors ==
  /\ IdleNode
  /\ IdleNeighbors

InitNeighborhoods ==
  \E w \in Widths, nb \in Neighborhoods :
    LET r == initNeighborhoods(neighbors_grid_offsets, w, nb) IN
    /\ neighbors_grid_offsets' = r.offsets
    /\ call' = [NoCall EXCEPT !.op = "initNeighborhoods", !.width = w,
                              !.neighborhood = nb, !.threw = r.threw]

GetNeighbors ==
  /\ call.op # "none"
  /\ ~call.threw
  /\ \E n \in Cells(call.width), v \in ValidSets(call.width) :
       call' = [call EXCEPT !.op = "getNeighbors", !.node_i = n, !.valid = v,
                            !.neighbors = getNeighbors(n, neighbors_grid_offsets, v)]
  /\ UNCHANGED neighbors_grid_offsets

NextNeighbors ==
  \/ InitNeighborhoods /\ UNCHANGED <<nodeVars, ep, search, grad, smoother>>
  \/ GetNeighbors /\ UNCHANGED <<nodeVars, ep, search, grad, smoother>>

SpecNeighbors == InitNeighbors /\ [][NextNeighbors]_vars

\* the four cardinal offsets of a grid of the given width
Cardinal(width) == {-1, 1, -width, width}

\* C9: for both neighbourhood kinds, the last neighbour getNeighbors
\* enumerates for a node whose table neighbours are all valid is a cardinal
\* neighbour (offset -1, +1, -W or +W).
C9_LastNeighborCardinal ==
  ( /\ call.op = "getNeighbors"
    /\ Len(call.neighbors) = Len(neighbors_grid_offsets)
    /\ Len(call.neighbors) > 0 )
  => (call.neighbors[Len(call.neighbors)] - call.node_i) \in Cardinal(call.width)

(***************************************************************************)
(* SpecEpisodes: two planning episodes, each on its own thread with its    *)
(* own node table and its own grid width.  Both go through the one static  *)
(* table; the loop of getNeighbors re-reads size() and one element of the  *)
(* table on every pass, so the other thread's initNeighborhoods can fall   *)
(* between two passes.                                                     *)
(***************************************************************************)
Episodes == {1, 2}

\* the grid width of each episode
EpisodeWidth == <<3, 4>>

InitEpisodes ==
  /\ IdleNode
  /\ IdleSearch
  /\ IdleGradient
  /\ IdleSmoother
  /\ neighbors_grid_offsets = <<>>
  /\ call = NoCall
  /\ ep \in [Episodes -> [pc : {"start"}, width : {0}, neighborhood : Neighborhoods,
                          node_i : {0}, i : {0}, neighbors : {<<>>}, used : {<<>>}]]
  /\ \A e \in Episodes : ep[e].width = 0

\* the episode calls initNeighborhoods with the width of its own grid
EpInitNeighborhoods(e) ==
  /\ ep[e].pc = "start"
  /\ LET r == initNeighborhoods(neighbors_grid_offsets, EpisodeWidth[e], ep[e].neighborhood) IN
     /\ neighbors_grid_offsets' = r.offsets
     /\ ep' = [ep EXCEPT ![e].pc = IF r.threw THEN "threw" ELSE "ready",
                         ![e].width = EpisodeWidth[e]]

\* getNeighbors is entered for a node of the episode's own table
EpGetNeighborsEnter(e) ==
  /\ ep[e].pc = "ready"
  /\ \E n \in Cells(ep[e].width) :
       ep' = [ep EXCEPT ![e].pc = "loop", ![e].node_i = n, ![e].i = 0,
                        ![e].neighbors = <<>>, ![e].used = <<>>]
  /\ UNCHANGED neighbors_grid_offsets

\* one pass of the loop of getNeighbors (i != size(), read offsets[i])
EpGetNeighborsPass(e) ==
  /\ ep[e].pc = "loop"
  /\ ep[e].i < Len(neighbors_grid_offsets)
  /\ LET offset == neighbors_grid_offsets[ep[e].i + 1]
         index  == NeighborIndex(ep[e].node_i, offset)
     IN  ep' = [ep EXCEPT ![e].i = @ + 1,
                          ![e].used = Append(@, offset),
                          ![e].neighbors =
                             IF NeighborPushed(index, Cells(ep[e].width))
                             THEN Append(@, index) ELSE @]
  /\ UNCHANGED neighbors_grid_offsets

\* the loop ends when i equals size()
EpGetNeighborsReturn(e) ==
  /\ ep[e].pc = "loop"
  /\ ep[e].i = Len(neighbors_grid_offsets)
  /\ ep' = [ep EXCEPT ![e].pc = "done"]
  /\ UNCHANGED neighbors_grid_offsets

\* the table shrank below i: i != size() stays true and offsets[i] is read
\* past the end of the vector
EpGetNeighborsOverrun(e) ==
  /\ ep[e].pc = "loop"
  /\ ep[e].i > Len(neighbors_grid_offsets)
  /\ ep' = [ep EXCEPT ![e].pc = "overrun"]
  /\ UNCHANGED neighbors_grid_offsets

NextEpisodes ==
  \/ \E e \in Episodes : EpInitNeighborhoods(e) /\ UNCHANGED <<nodeVars, call, search, grad, smoother>>
  \/ \E e \in Episodes : EpGetNeighborsEnter(e) /\ UNCHANGED <<nodeVars, call, search, grad, smoother>>
  \/ \E e \in Episodes : EpGetNeighborsPass(e) /\ UNCHANGED <<nodeVars, call, search, grad, smoother>>
  \/ \E e \in Episodes : EpGetNeighborsReturn(e) /\ UNCHANGED <<nodeVars, call, search, grad, smoother>>
  \/ \E e \in Episodes : EpGetNeighborsOverrun(e) /\ UNCHANGED <<nodeVars, call, search, grad, smoother>>

SpecEpisodes == InitEpisodes /\ [][NextEpisodes]_vars

\* C5: under every interleaving of two episodes on grids of different
\* widths, each getNeighbors call uses only offsets derived from the width
\* of its own episode (the episodes share no mutable state).
C5_OwnWidthOffsets ==
  \A e \in Episodes :
    ep[e].pc \in {"loop", "done", "overrun"} =>
      /\ ep[e].pc # "overrun"
      /\ \A k \in 1..Len(ep[e].used) :
           ep[e].used[k] = OffsetTable(EpisodeWidth[e], ep[e].neighborhood)[k]

(***************************************************************************)
(* Fixed-point arithmetic for the float results of hypotf                  *)
(***************************************************************************)
\* distances are kept in thousandths
Milli == 1000

\* the largest r in lo..hi with r * r <= n  (lo * lo <= n)
IsqrtBetween[n \in Int, lo \in Int, hi \in Int] ==
  IF lo >= hi THEN lo
  ELSE LET mid == (lo + hi + 1) \div 2
       IN  IF mid * mid <= n THEN IsqrtBetween[n, mid, hi]
           ELSE IsqrtBetween[n, lo, mid - 1]

\* floor of the square root of n, for 0 <= n < 2^31
Isqrt[n \in Int] == IsqrtBetween[n, 0, 46340]

Abs[x \in Int] == IF x < 0 THEN -x ELSE x

(***************************************************************************)
(* A* search (section 4.3 of the specification) over Node2D                *)
(***************************************************************************)
\* the neutral cost of one step
NeutralCost == 50

\* cells of a costmap that are not FREE
MaxObstacles == 1

\* the iteration caps a caller passes (0: no cap)
IterationCaps == {0, 3}

\* Node2D::getCoords(index, width, 1)
getCoords(i, width) == [x |-> i % width, y |-> i \div width]

\* Node2D::getIndex(x, y, width)
getIndex(x, y, width) == x + y * width

\* hypotf(dx, dy) in thousandths
Hypot(dx, dy) == Isqrt[(dx * dx + dy * dy) * Milli * Milli]

\* Node2D::getHeuristicCost(node_coords, goal_coordinates, neutral_cost),
\* in thousandths
getHeuristicCost(node_coords, goal_coordinates, neutral_cost) ==
  Hypot(goal_coordinates.x - node_coords.x,
        goal_coordinates.y - node_coords.y) * neutral_cost

\* the costmaps searched: every cell FREE but at most MaxObstacles cells,
\* which hold the cost bad
Costmaps(width, bad) ==
  { [c \in Cells(width) |-> IF c \in obs THEN bad ELSE FREE] :
      obs \in {o \in SUBSET Cells(width) : Cardinality(o) <= MaxObstacles} }

\* the node table of a search: one node per cell, reset from the costmap
NodeTable(width, costs) == [c \in Cells(width) |-> Node2D(costs[c], c)]

\* the cells the search's validity function accepts: cells of the table
\* whose node passes isNodeValid
ValidCells(s) ==
  {c \in Cells(s.width) : isNodeValid(s.graph[c], s.traverse_unknown).value}

\* f = g + h of a cell, in thousandths
FValue(s, g, c) ==
  g * Milli + getHeuristicCost(getCoords(c, s.width), getCoords(s.goal, s.width),
                               NeutralCost)

\* transition cost into v: neutral_cost + cell_cost(v), diagonal or not
StepCost(s, v) == NeutralCost + s.graph[v].cell_cost

\* position in the open set of the entry popped: lowest f, first inserted
PopPosition(open) ==
  CHOOSE k \in 1..Len(open) :
    /\ \A j \in 1..Len(open) : open[k].f <= open[j].f
    /\ \A j \in 1..(k - 1) : open[j].f > open[k].f

RemoveAt(seq, k) == SubSeq(seq, 1, k - 1) \o SubSeq(seq, k + 1, Len(seq))

RECURSIVE Relax(_, _, _, _)
\* the neighbour loop of one expansion of u: for each neighbour in order,
\* if g(u) + step_cost(v) < g(v), update g(v) and parent(v) and push v
Relax(s, u, nbrs, k) ==
  IF k > Len(nbrs) THEN s
  ELSE LET v  == nbrs[k]
           g2 == s.graph[u].accumulated_cost + StepCost(s, v)
       IN  IF g2 < s.graph[v].accumulated_cost
           THEN Relax([s EXCEPT
                         !.graph[v] = queued([setAccumulatedCost(@, g2) EXCEPT !.parent = u]),
                         !.open = Append(@, [f |-> FValue(s, g2, v), index |-> v])],
                      u, nbrs, k + 1)
           ELSE Relax(s, u, nbrs, k + 1)

RECURSIVE BackTrace(_, _, _)
\* the path from the start to cell c, by parent pointers (at most fuel steps)
BackTrace(graph, c, fuel) ==
  IF graph[c].parent = nullptr \/ fuel = 0 THEN <<c>>
  ELSE Append(BackTrace(graph, graph[c].parent, fuel - 1), c)

InitAStar ==
  /\ IdleNode
  /\ IdleGradient
  /\ IdleSmoother
  /\ neighbors_grid_offsets = <<>>
  /\ call = NoCall
  /\ IdleEpisodes
  /\ \E w \in Widths, nb \in {"VON_NEUMANN", "MOORE"}, tu \in BOOLEAN,
        bad \in {OCCUPIED, UNKNOWN}, cap \in IterationCaps :
       \E costs \in Costmaps(w, bad), st \in Cells(w), gl \in Cells(w) :
         search = [pc |-> "created", width |-> w, neighborhood |-> nb,
                   traverse_unknown |-> tu, cap |-> cap, costs |-> costs,
                   start |-> st, goal |-> gl,
                   graph |-> NodeTable(w, costs), open |-> <<>>,
                   iterations |-> 0, popped_f |-> <<>>, path |-> <<>>]

\* the search begins: the offset table is built, start and goal are checked
\* and the start node is pushed with g = 0 and f = h(start, goal)
SearchStart ==
  /\ search.pc = "created"
  /\ LET r == initNeighborhoods(neighbors_grid_offsets, search.width, search.neighborhood) IN
     /\ neighbors_grid_offsets' = r.offsets
     /\ IF {search.start, search.goal} \subseteq ValidCells(search)
        THEN search' = [search EXCEPT
               !.pc = "running",
               !.graph[search.start] = queued(setAccumulatedCost(@, 0)),
               !.open = <<[f |-> FValue(search, 0, search.start), index |-> search.start]>>]
        ELSE search' = [search EXCEPT !.pc = "StartOrGoalInvalid"]

\* the open set is empty
SearchNoPath ==
  /\ search.pc = "running"
  /\ search.open = <<>>
  /\ search' = [search EXCEPT !.pc = "NoPathFound"]
  /\ UNCHANGED neighbors_grid_offsets

\* the iteration cap is reached
SearchIterationLimit ==
  /\ search.pc = "running"
  /\ search.open # <<>>
  /\ search.cap # 0 /\ search.iterations >= search.cap
  /\ search' = [search EXCEPT !.pc = "IterationLimitExceeded"]
  /\ UNCHANGED neighbors_grid_offsets

\* one iteration: pop the lowest-f entry; return the path if it is the goal,
\* skip it if it is stale, else mark it visited and relax its neighbours
SearchIterate ==
  /\ search.pc = "running"
  /\ search.open # <<>>
  /\ search.cap = 0 \/ search.iterations < search.cap
  /\ LET k    == PopPosition(search.open)
         u    == search.open[k].index
         rest == [search EXCEPT !.open = RemoveAt(@, k), !.iterations = @ + 1]
     IN  IF u = search.goal
         THEN search' = [rest EXCEPT
                !.pc = "done",
                !.popped_f = Append(@, search.open[k].f),
                !.path = BackTrace(search.graph, u, Cardinality(Cells(search.width)))]
         ELSE IF search.graph[u].was_visited
         THEN search' = rest
         ELSE LET closed == [rest EXCEPT !.graph[u] = visited(@),
                                         !.popped_f = Append(@, search.open[k].f)]
                  nbrs   == getNeighbors(u, neighbors_grid_offsets, ValidCells(search))
              IN  search' = Relax(closed, u, nbrs, 1)
  /\ UNCHANGED neighbors_grid_offsets

NextAStar ==
  \/ SearchStart /\ UNCHANGED <<nodeVars, call, ep, grad, smoother>>
  \/ SearchNoPath /\ UNCHANGED <<nodeVars, call, ep, grad, smoother>>
  \/ SearchIterationLimit /\ UNCHANGED <<nodeVars, call, ep, grad, smoother>>
  \/ SearchIterate /\ UNCHANGED <<nodeVars, call, ep, grad, smoother>>

SpecAStar == InitAStar /\ [][NextAStar]_vars

\* two cells of the grid are adjacent in the search's neighbourhood
GridAdjacent(s, a, b) ==
  LET ca == getCoords(a, s.width)
      cb == getCoords(b, s.width)
      dx == Abs[ca.x - cb.x]
      dy == Abs[ca.y - cb.y]
  IN  IF s.neighborhood = "VON_NEUMANN" THEN dx + dy = 1
      ELSE dx <= 1 /\ dy <= 1 /\ dx + dy >= 1

RECURSIVE GridReach(_, _)
\* the valid cells joined to the set from by chains of grid-adjacent valid cells
GridReach(s, from) ==
  LET more == from \cup {c \in ValidCells(s) : \E a \in from : GridAdjacent(s, a, c)}
  IN  IF more = from THEN from ELSE GridReach(s, more)

\* C6: whenever a path of grid-adjacent valid cells joins start and goal,
\* every consecutive pair of cells of the returned path is grid-adjacent (no
\* neighbour that wrapped across a row boundary is part of it).
C6_PathGridAdjacent ==
  ( /\ search.pc = "done"
    /\ search.goal \in GridReach(search, {search.start}) )
  => \A k \in 1..(Len(search.path) - 1) :
       GridAdjacent(search, search.path[k], search.path[k + 1])

\* C8: the f-values of successively expanded (popped, non-stale) nodes never
\* decrease, for both neighbourhood kinds.
C8_PoppedFMonotone ==
  search.pc \in {"running", "done"} =>
    \A k \in 1..(Len(search.popped_f) - 1) : search.popped_f[k] <= search.popped_f[k + 1]

\* the node of the last getNeighbors call is not on the border of its grid
OffBorder ==
  LET c == getCoords(call.node_i, call.width)
  IN  c.x > 0 /\ c.x < call.width - 1 /\ c.y > 0 /\ c.y < GridHeight - 1

\* C13: for a node off the border and a validity checker that accepts every
\* cell of the grid, getNeighbors appends node + offset for every entry of
\* the offset table, in table order, and these are all the 4 (Von Neumann)
\* or 8 (Moore) grid-adjacent cells of the node, each once, the cell with
\* index 0 included.
C13_AllNeighbors ==
  ( /\ call.op = "getNeighbors"
    /\ call.valid = Cells(call.width)
    /\ OffBorder )
  => /\ call.neighbors =
          [k \in 1..Len(neighbors_grid_offsets) |->
             NeighborIndex(call.node_i, neighbors_grid_offsets[k])]
     /\ {call.neighbors[k] : k \in 1..Len(call.neighbors)} =
          {c \in Cells(call.width) : GridAdjacent(call, call.node_i, c)}
     /\ Len(call.neighbors) = IF call.neighborhood = "VON_NEUMANN" THEN 4 ELSE 8

(***************************************************************************)
(* Costmap view (MinimalCostmap) and getCostmapGradient                    *)
(***************************************************************************)
\* size of the costmap the smoother reads
CostmapSizeX == 7
CostmapSizeY == 7

\* doubles are kept in ten-thousandths, so that EPSILON is one unit
Frac == 10000

\* the costmaps used: all FREE, the ramp c(x, y) = 100 + 20 x, and one OCCUPIED
\* cell at (2, 2) on a FREE grid
CostmapIds == {"free", "ramp", "occupied"}

CostAt(id, x, y) ==
  CASE id = "free" -> FREE
    [] id = "ramp" -> 100 + 20 * x
    [] id = "occupied" -> IF x = 2 /\ y = 2 THEN OCCUPIED ELSE FREE

\* what a read outside the costmap may return
OutOfBoundsValues == {FREE, OCCUPIED}

\* An unsigned int is held in two's complement form: a value of 2^31 or more
\* is the negative number that is congruent to it modulo 2^32, so mx - 1 at
\* mx = 0 is 2^32 - 1, held as -1.
UGreaterZero(a) == a # 0

\* a < b on unsigned int
ULess(a, b) == IF (a < 0) = (b < 0) THEN a < b ELSE b < 0

\* the cell (x, y), two unsigned ints, lies inside [0, W) x [0, H)
InCostmap(x, y) ==
  /\ ULess(x, CostmapSizeX)
  /\ ULess(y, CostmapSizeY)

\* MinimalCostmap::getCost(mx, my): the cost of the cell, or whatever the read
\* finds when the cell is outside the costmap
getCost(id, x, y, junk) == IF InCostmap(x, y) THEN CostAt(id, x, y) ELSE junk

\* one of the twelve samples: taken when its guard holds, else left at 0.0
Sample(id, guard, x, y, junk) ==
  [ taken |-> guard, x |-> x, y |-> y,
    value |-> IF guard THEN getCost(id, x, y, junk) ELSE 0 ]

\* the names of the twelve samples
SampleNames ==
  { "right_one", "right_two", "right_three", "left_one", "left_two", "left_three",
    "up_one", "up_two", "up_three", "down_one", "down_two", "down_three" }

\* the twelve guarded reads of getCostmapGradient
CostmapSamples(id, mx, my, junk) ==
  [ right_one   |-> Sample(id, ULess(mx, CostmapSizeX), mx + 1, my, junk),
    right_two   |-> Sample(id, ULess(mx + 1, CostmapSizeX), mx + 2, my, junk),
    right_three |-> Sample(id, ULess(mx + 2, CostmapSizeX), mx + 3, my, junk),
    left_one    |-> Sample(id, UGreaterZero(mx), mx - 1, my, junk),
    left_two    |-> Sample(id, UGreaterZero(mx - 1), mx - 2, my, junk),
    left_three  |-> Sample(id, UGreaterZero(mx - 2), mx - 3, my, junk),
    up_one      |-> Sample(id, ULess(my, CostmapSizeY), mx, my + 1, junk),
    up_two      |-> Sample(id, ULess(my + 1, CostmapSizeY), mx, my + 2, junk),
    up_three    |-> Sample(id, ULess(my + 2, CostmapSizeY), mx, my + 3, junk),
    down_one    |-> Sample(id, UGreaterZero(my), mx, my - 1, junk),
    down_two    |-> Sample(id, UGreaterZero(my - 1), mx, my - 2, junk),
    down_three  |-> Sample(id, UGreaterZero(my - 2), mx, my - 3, junk) ]

\* division that truncates toward zero
Quot[a \in Int, b \in Int] == IF a >= 0 THEN a \div b ELSE -((-a) \div b)

\* Eigen's normalize(): the vector divided by its norm, in units of 1 / Frac;
\* a zero vector is left as it is
Normalized(v0, v1) ==
  IF v0 = 0 /\ v1 = 0 THEN <<0, 0>>
  ELSE LET n == Isqrt[v0 * v0 + v1 * v1]
       IN  <<Quot[v0 * Frac, n], Quot[v1 * Frac, n]>>

\* the seven-point stencil over the samples, normalised.  Both components
\* are divided by 60 in the code; the unit vector of the two numerators is
\* the unit vector of the two quotients.
StencilGradient(s) ==
  Normalized(
    45 * s.up_one.value - 9 * s.up_two.value + s.up_three.value
      - 45 * s.down_one.value + 9 * s.down_two.value - s.down_three.value,
    45 * s.right_one.value - 9 * s.right_two.value + s.right_three.value
      - 45 * s.left_one.value + 9 * s.left_two.value - s.left_three.value)

\* getCostmapGradient(mx, my): the samples it took and the vector returned
getCostmapGradient(id, mx, my, junk) ==
  LET s == CostmapSamples(id, mx, my, junk)
  IN  [ samples |-> s, gradient |-> StencilGradient(s) ]

(***************************************************************************)
(* Fixed-point arithmetic for the doubles of the smoother.  A double is an *)
(* integer count of units of 1 / Frac, or NaN.  Point coordinates and      *)
(* weights are integer-valued doubles and are kept as plain integers.      *)
(***************************************************************************)
\* a result that is not a finite number (NaN or an infinity)
NaN == -2147483647

\* EPSILON (0.0001) in units of 1 / Frac
EPSILON == 1

\* pi in units of 1 / Frac
Pi == 31416

\* a * b / Frac for non-negative a and b, rounded to the nearest unit,
\* without an intermediate product above 2^31
MulFracPos[a \in Int, b \in Int] ==
  (a \div Frac) * (b \div Frac) * Frac + (a \div Frac) * (b % Frac)
    + (a % Frac) * (b \div Frac) + ((a % Frac) * (b % Frac) + Frac \div 2) \div Frac

\* the product of two doubles
MulFrac[a \in Int, b \in Int] ==
  IF a = NaN \/ b = NaN THEN NaN
  ELSE IF (a < 0) = (b < 0) THEN MulFracPos[Abs[a], Abs[b]]
  ELSE -MulFracPos[Abs[a], Abs[b]]

\* a * Frac / b for a >= 0 and b > 0 by long division, two decimal digits at a
\* time
DivFracPos[a \in Int, b \in Int] ==
  LET r1 == (a % b) * 100
      r2 == (r1 % b) * 100
  IN  (a \div b) * Frac + (r1 \div b) * 100 + r2 \div b

\* the quotient of two doubles; x / 0 is not finite
DivFrac[a \in Int, b \in Int] ==
  IF a = NaN \/ b = NaN \/ b = 0 THEN NaN
  ELSE IF (a < 0) = (b < 0) THEN DivFracPos[Abs[a], Abs[b]]
  ELSE -DivFracPos[Abs[a], Abs[b]]

\* the sum and the difference of two doubles
AddFrac[a \in Int, b \in Int] == IF a = NaN \/ b = NaN THEN NaN ELSE a + b

SubFrac[a \in Int, b \in Int] == IF a = NaN \/ b = NaN THEN NaN ELSE a - b

\* an integer multiple of a double
Times[k \in Int, a \in Int] == IF a = NaN THEN NaN ELSE k * a

\* a / k rounded to the nearest integer, for an integer k > 0
RoundDiv[a \in Int, k \in Int] == IF a >= 0 THEN (a + k \div 2) \div k ELSE -((-a + k \div 2) \div k)

\* cos(x) for 0 <= x <= pi: the Taylor series to x^14 in Horner form
Cos[x \in Int] ==
  LET x2 == MulFrac[x, x]
      t7 == Frac - RoundDiv[x2, 182]
      t6 == Frac - RoundDiv[MulFrac[x2, t7], 132]
      t5 == Frac - RoundDiv[MulFrac[x2, t6], 90]
      t4 == Frac - RoundDiv[MulFrac[x2, t5], 56]
      t3 == Frac - RoundDiv[MulFrac[x2, t4], 30]
      t2 == Frac - RoundDiv[MulFrac[x2, t3], 12]
  IN  Frac - RoundDiv[MulFrac[x2, t2], 2]

\* the largest x in lo..hi with cos(x) >= p
AcosBetween[p \in Int, lo \in Int, hi \in Int] ==
  IF lo >= hi THEN lo
  ELSE LET mid == (lo + hi + 1) \div 2
       IN  IF Cos[mid] >= p THEN AcosBetween[p, mid, hi]
           ELSE AcosBetween[p, lo, mid - 1]

\* acos(p)
Acos[p \in Int] ==
  IF p >= Frac THEN 0
  ELSE IF p <= -Frac THEN Pi
  ELSE AcosBetween[p, 0, Pi]

\* Eigen::Vector2d operations on points with integer coordinates
VSub(a, b) == <<a[1] - b[1], a[2] - b[2]>>

Dot(a, b) == a[1] * b[1] + a[2] * b[2]

\* Vector2d::norm() of a vector with integer coordinates
Norm(a) == Isqrt[Dot(a, a) * Frac * Frac]

(***************************************************************************)
(* The cost terms of UnconstrainedSmootherCostFunction                     *)
(***************************************************************************)
\* CurvatureComputations::CurvatureComputations()
CurvatureComputations ==
  [ valid |-> TRUE, delta_xi |-> <<0, 0>>, delta_xi_p |-> <<0, 0>>,
    delta_xi_norm |-> 0, delta_xi_p_norm |-> 0, delta_phi_i |-> 0,
    turning_rad |-> 0, ki_minus_kmax |-> 0 ]

\* addSmoothingResidual(weight, pt, pt_p, pt_m, r): the new r
addSmoothingResidual(weight, pt, pt_p, pt_m, r) ==
  r + weight * ( Dot(pt_p, pt_p) - 4 * Dot(pt_p, pt) + 2 * Dot(pt_p, pt_m)
                 + 4 * Dot(pt, pt) - 4 * Dot(pt, pt_m) + Dot(pt_m, pt_m) ) * Frac

\* addSmoothingJacobian(weight, pt, pt_p, pt_m, j0, j1): the new <<j0, j1>>
addSmoothingJacobian(weight, pt, pt_p, pt_m, j) ==
  << AddFrac[j[1], weight * (-4 * pt_m[1] + 8 * pt[1] - 4 * pt_p[1]) * Frac],
     AddFrac[j[2], weight * (-4 * pt_m[2] + 8 * pt[2] - 4 * pt_p[2]) * Frac] >>

\* addDistanceResidual(weight, xi, xi_original, r): the new r
addDistanceResidual(weight, xi, xi_original, r) ==
  r + weight * Dot(VSub(xi, xi_original), VSub(xi, xi_original)) * Frac

\* addDistanceJacobian(weight, xi, xi_original, j0, j1): the new <<j0, j1>>
addDistanceJacobian(weight, xi, xi_original, j) ==
  << AddFrac[j[1], weight * 2 * (xi[1] - xi_original[1]) * Frac],
     AddFrac[j[2], weight * 2 * (xi[2] - xi_original[2]) * Frac] >>

\* addCostResidual(weight, value, r): the new r
addCostResidual(weight, value, r) ==
  IF value = FREE \/ value = UNKNOWN THEN r
  ELSE r + (-1) * weight * (value - MAX_NON_OBSTACLE) * (value - MAX_NON_OBSTACLE) * Frac

\* addCostJacobian(weight, mx, my, value, j0, j1): the new <<j0, j1>>
addCostJacobian(weight, id, mx, my, value, j, junk) ==
  IF value = FREE \/ value = UNKNOWN THEN j
  ELSE LET g == getCostmapGradient(id, mx, my, junk).gradient
           common_prefix == -2 * weight * (value - MAX_NON_OBSTACLE)
       IN  << AddFrac[j[1], common_prefix * g[1]], AddFrac[j[2], common_prefix * g[2]] >>

\* lines 331-334 of addCurvatureResidual: the two differences and their norms
\* are stored in the cache
CurvatureNorms(curvature_params, pt, pt_p, pt_m) ==
  [curvature_params EXCEPT
     !.delta_xi = VSub(pt, pt_m), !.delta_xi_p = VSub(pt_p, pt),
     !.delta_xi_norm = Norm(VSub(pt, pt_m)), !.delta_xi_p_norm = Norm(VSub(pt_p, pt))]

\* lines 346-348: a projection within EPSILON of 1 or of -1 becomes 1.0
Projection[projection \in Int] ==
  IF Abs[Frac - projection] < EPSILON \/ Abs[projection + Frac] < EPSILON
  THEN Frac ELSE projection

\* lines 350-353: delta_phi_i, turning_rad and ki_minus_kmax are stored in the
\* cache
CurvatureTurning(c, delta_phi_i, max_turning_radius) ==
  [c EXCEPT !.delta_phi_i = delta_phi_i,
            !.turning_rad = Quot[delta_phi_i * Frac, c.delta_xi_norm],
            !.ki_minus_kmax = Quot[delta_phi_i * Frac, c.delta_xi_norm] - max_turning_radius]

\* lines 355-361: the penalty is skipped, and the cache marked invalid, when
\* ki_minus_kmax <= EPSILON; else it is added to r
CurvatureQuadratic(weight, c, r) ==
  IF c.ki_minus_kmax <= EPSILON
  THEN [curvature_params |-> [c EXCEPT !.valid = FALSE], r |-> r, added |-> FALSE]
  ELSE [curvature_params |-> c,
        r |-> r + weight * MulFrac[c.ki_minus_kmax, c.ki_minus_kmax],
        added |-> TRUE]

\* lines 336-361 of addCurvatureResidual, from the cache c as lines 330-334
\* left it.  The norms of vectors with finite coordinates are finite, so the
\* isnan / isinf tests fail.
CurvaturePenalty(weight, c, max_turning_radius, r) ==
  IF \/ c.delta_xi_norm < EPSILON \/ c.delta_xi_p_norm < EPSILON
     \/ c.delta_xi_p_norm = NaN \/ c.delta_xi_norm = NaN
  THEN [curvature_params |-> [c EXCEPT !.valid = FALSE], r |-> r, added |-> FALSE]
  ELSE
    LET delta_xi_by_xi_p == Isqrt[Dot(c.delta_xi, c.delta_xi) * Dot(c.delta_xi_p, c.delta_xi_p)
                                    * Frac * Frac]
        projection == Projection[Quot[Dot(c.delta_xi, c.delta_xi_p) * Frac * Frac,
                                      delta_xi_by_xi_p]]
    IN  CurvatureQuadratic(weight, CurvatureTurning(c, Acos[projection], max_turning_radius), r)

\* addCurvatureResidual with line 330 (valid = true) left out
addCurvatureResidual_noRevalidate(weight, pt, pt_p, pt_m, curvature_params, max_turning_radius, r) ==
  CurvaturePenalty(weight, CurvatureNorms(curvature_params, pt, pt_p, pt_m),
                   max_turning_radius, r)

\* addCurvatureResidual(weight, pt, pt_p, pt_m, curvature_params, r): the
\* cache as the call leaves it, the new r, and whether the penalty line
\* (r += ...) was reached; max_turning_radius is the member the call reads
addCurvatureResidual(weight, pt, pt_p, pt_m, curvature_params, max_turning_radius, r) ==
  CurvaturePenalty(weight,
                   CurvatureNorms([curvature_params EXCEPT !.valid = TRUE], pt, pt_p, pt_m),
                   max_turning_radius, r)

\* the negation of a double
Neg[a \in Int] == IF a = NaN THEN NaN ELSE -a

\* normalizedOrthogonalComplement(a, b, a_norm, b_norm) for vectors a and b
\* with integer coordinates: (a - b * a.dot(b) / b.squaredNorm()) divided by
\* a_norm * b_norm
normalizedOrthogonalComplement(a, b, a_norm, b_norm) ==
  LET ab == Dot(a, b)
      bb == Dot(b, b)
      component(k) == SubFrac[a[k] * Frac, DivFrac[b[k] * ab * Frac, bb * Frac]]
  IN  << DivFrac[component(1), MulFrac[a_norm, b_norm]],
         DivFrac[component(2), MulFrac[a_norm, b_norm]] >>

\* lines 397-401 of addCurvatureJacobian: the three Jacobians built from u,
\* common_prefix, common_suffix, p1 and p2, and their weighted sum added to
\* <<j0, j1>>
CurvatureJacobianSum(weight, u, common_prefix, common_suffix, p1, p2, j) ==
  LET jacobian(k) ==
        MulFrac[u, SubFrac[MulFrac[common_prefix, SubFrac[Neg[p1[k]], p2[k]]],
                           common_suffix]]
      jacobian_im1(k) ==
        MulFrac[u, SubFrac[MulFrac[common_prefix, p2[k]], common_suffix]]
      jacobian_ip1(k) == MulFrac[u, MulFrac[common_prefix, p1[k]]]
      term(k) == Times[weight, AddFrac[SubFrac[jacobian_im1(k), Times[2, jacobian(k)]],
                                       jacobian_ip1(k)]]
  IN  <<AddFrac[j[1], term(1)], AddFrac[j[2], term(2)]>>

\* -1 / sqrt(1 - cos(delta_phi_i)^2) from the value of cos(delta_phi_i)
PartialDeltaPhi[cos_phi \in Int] ==
  IF cos_phi * cos_phi > Frac * Frac THEN NaN
  ELSE DivFrac[-Frac, Isqrt[Frac * Frac - cos_phi * cos_phi]]

\* addCurvatureJacobian(weight, pt, pt_p, pt_m, curvature_params, j0, j1):
\* the new <<j0, j1>> and whether the isValid() test let the term through
addCurvatureJacobian(weight, pt, pt_p, pt_m, curvature_params, j) ==
  IF ~curvature_params.valid THEN [j |-> j, added |-> FALSE]
  ELSE
    LET partial_delta_phi_i_wrt_cost_delta_phi_i ==
          PartialDeltaPhi[Cos[curvature_params.delta_phi_i]]
        neg_pt_plus == <<-pt_p[1], -pt_p[2]>>
        p1 == normalizedOrthogonalComplement(pt, neg_pt_plus,
                curvature_params.delta_xi_norm, curvature_params.delta_xi_p_norm)
        p2 == normalizedOrthogonalComplement(neg_pt_plus, pt,
                curvature_params.delta_xi_p_norm, curvature_params.delta_xi_norm)
        u == 2 * curvature_params.ki_minus_kmax
        common_prefix == MulFrac[DivFrac[-Frac, curvature_params.delta_xi_norm],
                                 partial_delta_phi_i_wrt_cost_delta_phi_i]
        common_suffix == DivFrac[curvature_params.delta_phi_i,
                                 MulFrac[curvature_params.delta_xi_norm,
                                         curvature_params.delta_xi_norm]]
    IN  [j |-> CurvatureJacobianSum(weight, u, common_prefix, common_suffix, p1, p2, j),
         added |-> TRUE]

(***************************************************************************)
(* UnconstrainedSmootherCostFunction::Evaluate                             *)
(***************************************************************************)
\* longest path smoothed
MaxPoints == 5

\* the steps between consecutive points of a parameter vector: none, right,
\* back, and the two diagonals to the right
Steps == { <<0, 0>>, <<1, 0>>, <<-1, 0>>, <<1, 1>>, <<1, -1>> }

\* the cost functions constructed: SmootherParams { smooth_weight,
\* curvature_weight, costmap_weight, distance_weight, max_curvature } and the
\* costmap handed to the constructor
SmootherParams ==
  { [smooth |-> 1, curve |-> 0, cost |-> 0, dist |-> 0, max_curvature |-> 0, costmap |-> "free"],
    [smooth |-> 0, curve |-> 1, cost |-> 0, dist |-> 0, max_curvature |-> 0, costmap |-> "free"],
    [smooth |-> 0, curve |-> 0, cost |-> 1, dist |-> 0, max_curvature |-> 0, costmap |-> "ramp"],
    [smooth |-> 1, curve |-> 1, cost |-> 1, dist |-> 1, max_curvature |-> Frac, costmap |-> "ramp"] }

RECURSIVE Walks(_)
\* the parameter vectors of n points: walks from the origin by Steps
Walks(n) ==
  IF n = 1 THEN { << <<0, 0>> >> }
  ELSE { Append(w, <<w[n - 1][1] + d[1], w[n - 1][2] + d[2]>>) : w \in Walks(n - 1), d \in Steps }

\* the path the planner handed over: n points along the x axis
StraightPath(n) == [k \in 1..n |-> <<k - 1, 0>>]

\* MinimalCostmap::worldToMap(wx, wy, mx, my) on a costmap with its origin at
\* (0, 0) and cells of size 1
worldToMap(wx, wy) ==
  [ in_bounds |-> wx >= 0 /\ wy >= 0 /\ wx < CostmapSizeX /\ wy < CostmapSizeY,
    mx |-> wx, my |-> wy ]

\* NumParameters()
NumParameters(sm) == 2 * Len(sm.original_path)

\* the test of line 129: point i is the first or the last point
IsEndpoint(sm, i) == i < 1 \/ i >= NumParameters(sm) \div 2 - 1

\* lines 125-128 with only the x slot cleared
ZeroGradient_xOnly(gradient, i) == (2 * i :> 0) @@ gradient

\* lines 125-128: both gradient slots of point i are set to 0.0
ZeroGradient(gradient, i) == (2 * i :> 0) @@ (2 * i + 1 :> 0) @@ gradient

\* lines 159-160: the two accumulators are stored in the slots of point i
StoreGradient(gradient, i, j) == (2 * i :> j[1]) @@ (2 * i + 1 :> j[2]) @@ gradient

\* lines 138-145: the four residuals of point i added to r
Residuals(sm, i, curvature_params, r) ==
  LET xi    == sm.parameters[i + 1]
      xi_p1 == sm.parameters[i + 2]
      xi_m1 == sm.parameters[i]
      r1 == addSmoothingResidual(sm.Wsmooth, xi, xi_p1, xi_m1, r)
      cr == addCurvatureResidual(sm.Wcurve, xi, xi_p1, xi_m1, curvature_params,
                                 sm.max_turning_radius, r1)
      r3 == addDistanceResidual(sm.Wdist, xi, sm.original_path[i + 1], cr.r)
      wm == worldToMap(xi[1], xi[2])
  IN  [ curvature_params |-> cr.curvature_params,
        curvature_added |-> cr.added,
        valid_coords |-> wm.in_bounds,
        mx |-> IF wm.in_bounds THEN wm.mx ELSE sm.mx,
        my |-> IF wm.in_bounds THEN wm.my ELSE sm.my,
        costmap_cost |-> IF wm.in_bounds THEN CostAt(sm.costmap, wm.mx, wm.my)
                         ELSE sm.costmap_cost,
        r |-> IF wm.in_bounds
              THEN addCostResidual(sm.Wcost, CostAt(sm.costmap, wm.mx, wm.my), r3)
              ELSE r3 ]

\* lines 151-157: the four Jacobians of point i added to <<j0, j1>>
Jacobians(sm, i, res, j, junk) ==
  LET xi    == sm.parameters[i + 1]
      xi_p1 == sm.parameters[i + 2]
      xi_m1 == sm.parameters[i]
      j1 == addSmoothingJacobian(sm.Wsmooth, xi, xi_p1, xi_m1, j)
      cj == addCurvatureJacobian(sm.Wcurve, xi, xi_p1, xi_m1, res.curvature_params, j1)
      j3 == addDistanceJacobian(sm.Wdist, xi, sm.original_path[i + 1], cj.j)
  IN  [ curvature_added |-> cj.added,
        j |-> IF res.valid_coords
              THEN addCostJacobian(sm.Wcost, sm.costmap, res.mx, res.my,
                                   res.costmap_cost, j3, junk)
              ELSE j3 ]

(***************************************************************************)
(* SpecSmoother: a cost function is constructed and Evaluate runs through  *)
(* its loop, one point per step                                            *)
(***************************************************************************)
InitSmoother ==
  /\ IdleNode
  /\ neighbors_grid_offsets = <<>>
  /\ call = NoCall
  /\ IdleEpisodes
  /\ IdleSearch
  /\ IdleGradient
  /\ \E n \in 1..MaxPoints, p \in SmootherParams :
       smoother = [ pc |-> "constructed", original_path |-> StraightPath(n),
                    Wsmooth |-> p.smooth, Wcurve |-> p.curve, Wcost |-> p.cost,
                    Wdist |-> p.dist, max_turning_radius |-> p.max_curvature,
                    costmap |-> p.costmap ]

\* Evaluate is entered (lines 109-122)
EvaluateEnter ==
  /\ smoother.pc = "constructed"
  /\ \E params \in Walks(Len(smoother.original_path)), null \in BOOLEAN :
       smoother' = [ pc |-> "loop", original_path |-> smoother.original_path,
                     Wsmooth |-> smoother.Wsmooth, Wcurve |-> smoother.Wcurve,
                     Wcost |-> smoother.Wcost, Wdist |-> smoother.Wdist,
                     max_turning_radius |-> smoother.max_turning_radius,
                     costmap |-> smoother.costmap,
                     parameters |-> params, gradient_null |-> null,
                     i |-> 0, cost |-> 0, cost_raw |-> 0,
                     grad_x_raw |-> 0, grad_y_raw |-> 0,
                     mx |-> 0, my |-> 0, valid_coords |-> TRUE, costmap_cost |-> 0,
                     curvature_params |-> CurvatureComputations,
                     gradient |-> <<>>, log |-> <<>> ]

\* gradient is NULL: lines 127-128 write through the null pointer
EvaluateNullWrite ==
  /\ smoother.pc = "loop"
  /\ smoother.gradient_null
  /\ smoother.i # NumParameters(smoother) \div 2
  /\ smoother' = [smoother EXCEPT !.pc = "null_write"]

\* one pass of the loop for a first or last point (lines 125-131)
EvaluateEndpoint ==
  /\ smoother.pc = "loop"
  /\ ~smoother.gradient_null
  /\ smoother.i # NumParameters(smoother) \div 2
  /\ IsEndpoint(smoother, smoother.i)
  /\ smoother' = [smoother EXCEPT
       !.gradient = ZeroGradient(@, smoother.i),
       !.log = Append(@, [interior |-> FALSE, cost_raw |-> smoother.cost_raw,
                          residual_added |-> FALSE, jacobian_added |-> FALSE]),
       !.i = @ + 1]

\* one pass of the loop for an interior point (lines 125-161)
EvaluateInterior ==
  /\ smoother.pc = "loop"
  /\ ~smoother.gradient_null
  /\ smoother.i # NumParameters(smoother) \div 2
  /\ ~IsEndpoint(smoother, smoother.i)
  /\ \E junk \in OutOfBoundsValues :
     \E res \in {Residuals(smoother, smoother.i, smoother.curvature_params, smoother.cost_raw)} :
     \E jac \in {Jacobians(smoother, smoother.i, res, <<smoother.grad_x_raw, smoother.grad_y_raw>>, junk)} :
       smoother' = [smoother EXCEPT
         !.cost_raw = res.r,
         !.curvature_params = res.curvature_params,
         !.valid_coords = res.valid_coords,
         !.mx = res.mx, !.my = res.my,
         !.costmap_cost = res.costmap_cost,
         !.grad_x_raw = jac.j[1],
         !.grad_y_raw = jac.j[2],
         !.gradient = StoreGradient(ZeroGradient(@, smoother.i), smoother.i, jac.j),
         !.log = Append(@, [interior |-> TRUE, cost_raw |-> res.r,
                            residual_added |-> res.curvature_added,
                            jacobian_added |-> jac.curvature_added]),
         !.i = @ + 1]

\* the loop is over: cost[0] = cost_raw and Evaluate returns true
EvaluateReturn ==
  /\ smoother.pc = "loop"
  /\ smoother.i = NumParameters(smoother) \div 2
  /\ smoother' = [smoother EXCEPT !.pc = "returned", !.cost = smoother.cost_raw]

NextSmoother ==
  \/ EvaluateEnter /\ UNCHANGED <<nodeVars, neighborVars, search, grad>>
  \/ EvaluateNullWrite /\ UNCHANGED <<nodeVars, neighborVars, search, grad>>
  \/ EvaluateEndpoint /\ UNCHANGED <<nodeVars, neighborVars, search, grad>>
  \/ EvaluateInterior /\ UNCHANGED <<nodeVars, neighborVars, search, grad>>
  \/ EvaluateReturn /\ UNCHANGED <<nodeVars, neighborVars, search, grad>>

SpecSmoother == InitSmoother /\ [][NextSmoother]_vars

\* the points of the call in progress
NumPoints == Len(smoother.parameters)

\* cost_raw before the pass of the loop that wrote log[k]
CostBefore(k) == IF k = 1 THEN 0 ELSE smoother.log[k - 1].cost_raw

\* C1: after Evaluate has returned for a path of n >= 2 points, the four
\* gradient slots of the two endpoints (0, 1, 2n-2, 2n-1) have been written
\* and hold 0, and the passes of the loop for the two endpoints left the cost
\* as it was.
C1_EndpointsFixed ==
  (smoother.pc = "returned" /\ NumPoints >= 2) =>
    /\ \A k \in {0, 1, 2 * NumPoints - 2, 2 * NumPoints - 1} :
         k \in DOMAIN smoother.gradient /\ smoother.gradient[k] = 0
    /\ smoother.log[1].cost_raw = CostBefore(1)
    /\ smoother.log[NumPoints].cost_raw = CostBefore(NumPoints)
    /\ smoother.cost = smoother.log[NumPoints].cost_raw

\* Evaluate has returned for a path with interior points that have a cost
\* and a gradient of their own
C1_Witness ==
  /\ smoother.pc = "returned"
  /\ NumPoints >= 4
  /\ smoother.cost > 0
  /\ smoother.gradient[2] # 0
  /\ smoother.gradient[2 * NumPoints - 3] # 0

\* the gradient pair of point i from the four Jacobians of point i alone,
\* added to (0, 0)
OwnGradient(i, junk) ==
  Jacobians(smoother, i, Residuals(smoother, i, CurvatureComputations, 0), <<0, 0>>, junk).j

\* C2: the gradient pair Evaluate has written for an interior point i is the
\* sum of the four term gradients of point i alone, whatever the points
\* before it contributed.
C2_GradientOfPointAlone ==
  smoother.pc \in {"loop", "returned"} =>
    \A i \in 1..(smoother.i - 1) :
      i < NumPoints - 1 =>
        \E junk \in OutOfBoundsValues :
          <<smoother.gradient[2 * i], smoother.gradient[2 * i + 1]>> = OwnGradient(i, junk)

\* the condition of the claim for point i: both segment norms are at least
\* EPSILON and the slack is above EPSILON, decided from a fresh cache
PenaltyApplies(i) ==
  CurvaturePenalty(smoother.Wcurve,
                   CurvatureNorms(CurvatureComputations, smoother.parameters[i + 1],
                                  smoother.parameters[i + 2], smoother.parameters[i]),
                   smoother.max_turning_radius, 0).added

\* C10: for every interior point the loop has processed, the curvature
\* Jacobian added to the gradient exactly when the curvature residual of the
\* same point added its penalty, and that is exactly when the point's own
\* norms and slack call for the penalty.
C10_JacobianIffResidual ==
  smoother.pc \in {"loop", "returned"} =>
    \A k \in 1..Len(smoother.log) :
      smoother.log[k].interior =>
        /\ smoother.log[k].jacobian_added <=> smoother.log[k].residual_added
        /\ smoother.log[k].residual_added <=> PenaltyApplies(k - 1)

\* a point without a penalty was processed and the point after it got both
\* the penalty and its Jacobian
C10_Witness ==
  /\ smoother.pc \in {"loop", "returned"}
  /\ \E k \in 2..(Len(smoother.log) - 1) :
       /\ smoother.log[k].interior /\ ~smoother.log[k].residual_added
       /\ smoother.log[k + 1].interior
       /\ smoother.log[k + 1].residual_added /\ smoother.log[k + 1].jacobian_added

\* the turning angle at point i from the geometry alone: acos of the cosine
\* of the angle between the incoming and the outgoing segment (pi when they
\* are anti-parallel); both segments have a length of at least EPSILON
TurningAngle(i) ==
  LET delta_xi   == VSub(smoother.parameters[i + 1], smoother.parameters[i])
      delta_xi_p == VSub(smoother.parameters[i + 2], smoother.parameters[i + 1])
  IN  Acos[Quot[Dot(delta_xi, delta_xi_p) * Frac * Frac,
                Isqrt[Dot(delta_xi, delta_xi) * Dot(delta_xi_p, delta_xi_p) * Frac * Frac]]]

\* neither segment at point i is degenerate
SegmentsProper(i) ==
  /\ Norm(VSub(smoother.parameters[i + 1], smoother.parameters[i])) >= EPSILON
  /\ Norm(VSub(smoother.parameters[i + 2], smoother.parameters[i + 1])) >= EPSILON

\* the turning angle at point i divided by the length of the incoming segment
\* exceeds max_turning_radius by more than EPSILON
ExceedsMaxCurvature(i) ==
  /\ SegmentsProper(i)
  /\ Quot[TurningAngle(i) * Frac,
          Norm(VSub(smoother.parameters[i + 1], smoother.parameters[i]))]
       - smoother.max_turning_radius > EPSILON

\* what addCurvatureResidual adds to the cost at point i
CurvaturePenaltyAt(i) ==
  addCurvatureResidual(smoother.Wcurve, smoother.parameters[i + 1], smoother.parameters[i + 2],
                       smoother.parameters[i], CurvatureComputations,
                       smoother.max_turning_radius, 0).r

C12_NullGradientNotWritten ==
  (smoother.pc \in {"loop", "returned", "null_write"} /\ smoother.gradient_null) =>
    smoother.pc # "null_write"

(***************************************************************************)
(* SpecGradient: getCostmapGradient called on the cells of a costmap       *)
(***************************************************************************)
InitGradient ==
  /\ IdleNode
  /\ IdleNeighbors

CostmapGradient ==
  \E id \in CostmapIds, mx \in 0..(CostmapSizeX - 1), my \in 0..(CostmapSizeY - 1),
     junk \in OutOfBoundsValues :
    LET r == getCostmapGradient(id, mx, my, junk) IN
    grad' = [ called |-> TRUE, costmap |-> id, mx |-> mx, my |-> my,
              samples |-> r.samples, gradient |-> r.gradient ]

NextGradient ==
  \/ CostmapGradient /\ UNCHANGED <<nodeVars, neighborVars, search, smoother>>

SpecGradient == InitGradient /\ [][NextGradient]_vars

\* C3: for every in-bounds cell, getCostmapGradient reads the costmap only
\* at cells inside [0, W) x [0, H), and each of the twelve samples is the
\* cost of its cell when that cell is in bounds and 0 when it is not.
C3_SamplesInBounds ==
  grad.called =>
    \A n \in SampleNames :
      LET s == grad.samples[n] IN
      /\ s.taken => InCostmap(s.x, s.y)
      /\ s.value = IF InCostmap(s.x, s.y) THEN CostAt(grad.costmap, s.x, s.y) ELSE 0

(***************************************************************************)
(* SpecNode: any sequence of operations on one Node2D                      *)
(***************************************************************************)
\* accumulated costs a search writes into a node: a finite one and the maximum
AccCosts == {50, FloatMax}

\* parents a search assigns: none, or the node of the largest index
Parents == {nullptr, MaxIndex}

InitNode ==
  /\ node \in {Node2D(c, i) : c \in CostValues, i \in 0..MaxIndex}
  /\ ret = Void
  /\ IdleNeighbors

\* every field that a search changes differs from its value at construction
Used(n) ==
  /\ n.parent # nullptr
  /\ n.accumulated_cost # FloatMax
  /\ n.was_visited
  /\ n.is_queued

\* reset(c, i); the call is recorded with its arguments and with whether the
\* node it was applied to had been used
Reset ==
  \E c \in CostValues, i \in 0..MaxIndex :
    /\ node' = reset(node, c, i)
    /\ ret' = [op |-> "reset", cost |-> c, index |-> i, used |-> Used(node)]

Visited ==
  /\ node' = visited(node)
  /\ ret' = [Void EXCEPT !.op = "visited"]

Queued ==
  /\ node' = queued(node)
  /\ ret' = [Void EXCEPT !.op = "queued"]

SetAccumulatedCost ==
  \E g \in AccCosts :
    /\ node' = setAccumulatedCost(node, g)
    /\ ret' = [Void EXCEPT !.op = "setAccumulatedCost"]

SetParent ==
  \E p \in Parents :
    /\ node' = [node EXCEPT !.parent = p]
    /\ ret' = [Void EXCEPT !.op = "parent"]

IsNodeValid ==
  \E tu \in BOOLEAN :
    LET r == isNodeValid(node, tu) IN
    /\ node' = r.node
    /\ ret' = [op |-> "isNodeValid", traverse_unknown |-> tu, value |-> r.value]

NextNode ==
  \/ Reset /\ UNCHANGED <<neighborVars, search, grad, smoother>>
  \/ Visited /\ UNCHANGED <<neighborVars, search, grad, smoother>>
  \/ Queued /\ UNCHANGED <<neighborVars, search, grad, smoother>>
  \/ SetAccumulatedCost /\ UNCHANGED <<neighborVars, search, grad, smoother>>
  \/ SetParent /\ UNCHANGED <<neighborVars, search, grad, smoother>>
  \/ IsNodeValid /\ UNCHANGED <<neighborVars, search, grad, smoother>>

SpecNode == InitNode /\ [][NextNode]_vars

(***************************************************************************)
(* Properties of Node2D                                                    *)
(***************************************************************************)

\* C4: after any sequence of reset, visited and queued, a node that was
\* visited is not marked as queued.
C4_VisitedNotQueued == node.was_visited => ~node.is_queued

\* C7: isNodeValid returns false exactly when the cost is OCCUPIED, or
\* INSCRIBED, or UNKNOWN with traverse_unknown false, returns true for every
\* other cost, and leaves the node as it was.
C7_IsNodeValidTable ==
  [][ret'.op = "isNodeValid" =>
       /\ node' = node
       /\ ret'.value =
            ~( \/ node.cell_cost = OCCUPIED
               \/ node.cell_cost = INSCRIBED
               \/ (node.cell_cost = UNKNOWN /\ ~ret'.traverse_unknown) )]_vars

\* C11: whatever visited, queued, setAccumulatedCost and parent assignments
\* came before, reset(c, i) leaves the node equal to a freshly constructed
\* Node2D(c, i) (parent none, accumulated cost the maximum, both flags false,
\* cell cost c, index i), and a second reset(c, i) changes nothing.
C11_ResetIsFresh ==
  [][ret'.op = "reset" =>
       /\ node' = Node2D(ret'.cost, ret'.index)
       /\ reset(node', ret'.cost, ret'.index) = node']_vars

\* reset has been applied to a node that had a parent, a finite accumulated
\* cost and both flags set, with a cost and an index other than the node's
\* first ones
C11_Witness ==
  /\ ret.op = "reset"
  /\ ret.used
  /\ ret.cost = OCCUPIED
  /\ ret.index = MaxIndex
  /\ node = Node2D(OCCUPIED, MaxIndex)

\* isNodeValid has accepted an UNKNOWN cell with traverse_unknown set
C7_Witness ==
  /\ ret.op = "isNodeValid"
  /\ node.cell_cost = UNKNOWN
  /\ ret.traverse_unknown
  /\ ret.value

====
